---- MODULE Spec2Model ----
(***************************************************************************)
(* WP to Mail: the top-3 conversation watcher of app.js                    *)
(* (WhatsAppEmailNotifier) and the control surface of server.js.           *)
(*                                                                         *)
(* Strings are sequences of one-character strings, so that trim(), length, *)
(* the HH:MM pattern and includes('http') are computed on the characters.  *)
(* A snapshot is a sequence of such strings.                               *)
(***************************************************************************)
EXTENDS Integers, Sequences, FiniteSets, TLC

(* ------------------------------ bounds --------------------------------- *)

\* most conversation entries a document of the extraction check holds
MaxChats == 4
\* largest value Date.now() takes in the model
MaxNow == 1
\* most poll ticks the loops of one notifier start, all loops together
MaxTicks == 3
\* longest array the comparison check hands to arraysEqual
MaxEqLen == 3
\* most notifiers the control surface constructs
MaxNotifiers == 2
\* largest value of the page clock in the timing check, in ms
MaxClock == 4

(* --------------------------- program constants -------------------------- *)

\* Math.min(3, chats.length) and the padding loop of getSimpleTop3Names
TopN == 3
\* title.length < 50, text.length < 50
MaxLabelLen == 50
\* title.length > 1, text.length > 1
MinLabelLen == 1
\* the names of the entries of emailConfigs
emailConfigs == <<"Gmail SMTP (TLS)", "Gmail SMTP (SSL)", "Gmail Service">>
\* this.emailConfigs.length
NumConfigs == Len(emailConfigs)
\* const maxAttempts = 36 of the QR wait loop
maxAttempts == 36

(* ------------------------------ strings -------------------------------- *)

Digits == {"0", "1", "2", "3", "4", "5", "6", "7", "8", "9"}

DigitChar == <<"0", "1", "2", "3", "4", "5", "6", "7", "8", "9">>

\* String.prototype.trim on the model's alphabet: blanks are the only white space
RECURSIVE TrimStart(_)
TrimStart(s) ==
  IF s # <<>> /\ Head(s) = " " THEN TrimStart(Tail(s)) ELSE s

RECURSIVE TrimEnd(_)
TrimEnd(s) ==
  IF s # <<>> /\ s[Len(s)] = " " THEN TrimEnd(SubSeq(s, 1, Len(s) - 1)) ELSE s

Trim(s) == TrimEnd(TrimStart(s))

\* text.match(/^\d{1,2}:\d{2}$/)
MatchesTime(s) ==
  \/ /\ Len(s) = 4
     /\ s[1] \in Digits /\ s[2] = ":" /\ s[3] \in Digits /\ s[4] \in Digits
  \/ /\ Len(s) = 5
     /\ s[1] \in Digits /\ s[2] \in Digits /\ s[3] = ":"
     /\ s[4] \in Digits /\ s[5] \in Digits

\* text.includes('http')
IncludesHttp(s) ==
  \E i \in 1..Len(s) :
    i + 3 <= Len(s) /\ SubSeq(s, i, i + 3) = <<"h", "t", "t", "p">>

\* the decimal digits of a number, as a template literal prints it
RECURSIVE Decimal(_)
Decimal(n) ==
  IF n < 10 THEN <<DigitChar[n + 1]>>
  ELSE Decimal(n \div 10) \o <<DigitChar[(n % 10) + 1]>>

\* a string of n copies of the character c
RECURSIVE Rep(_, _)
Rep(c, n) == IF n = 0 THEN <<>> ELSE <<c>> \o Rep(c, n - 1)

(* --------------------- the document and its queries --------------------- *)

\* the containers the selector chain names in front of div[role="listitem"]
Containers == {"chat-list", "pane-side", "side"}

\* chatSelectors: the container each query requires around the list item,
\* "" for the bare div[role="listitem"]
chatSelectors == <<"chat-list", "pane-side", "side", "">>

\* page.$$(selector): the list items of document d the query matches, in
\* document order
PageQueryAll(d, selector) ==
  SelectSeq(d, LAMBDA el : selector = "" \/ selector \in el.within)

\* the loop over chatSelectors without its break: every query is issued
\* and the result of the last one is kept
FindChats_NoBreak(d, i, failAt) ==
  IF failAt \in 1..Len(chatSelectors)
  THEN [threw |-> TRUE, chats |-> <<>>, ops |-> failAt]
  ELSE [threw |-> FALSE,
        chats |-> PageQueryAll(d, chatSelectors[Len(chatSelectors)]),
        ops |-> Len(chatSelectors)]

\* the loop over chatSelectors: query after query until one matches.  A
\* page operation that raises is number failAt among the operations the
\* extraction issues (0: none raises).
RECURSIVE FindChats(_, _, _)
FindChats(d, i, failAt) ==
  IF i > Len(chatSelectors)
  THEN [threw |-> FALSE, chats |-> <<>>, ops |-> i - 1]
  ELSE IF failAt = i
  THEN [threw |-> TRUE, chats |-> <<>>, ops |-> i]
  ELSE LET chats == PageQueryAll(d, chatSelectors[i])
       IN  IF Len(chats) > 0
           THEN [threw |-> FALSE, chats |-> chats, ops |-> i]
           ELSE FindChats(d, i + 1, failAt)

\* first span[title] whose title passes the test; <<>> stands for none
\* (a returned label is never empty: title.trim() is truthy)
RECURSIVE FirstTitle(_)
FirstTitle(spans) ==
  IF spans = <<>> THEN <<>>
  ELSE LET span == Head(spans)
           title == span.title
       IN  IF /\ span.hasTitle
              /\ title # <<>> /\ Trim(title) # <<>>
              /\ Len(title) > MinLabelLen /\ Len(title) < MaxLabelLen
           THEN Trim(title)
           ELSE FirstTitle(Tail(spans))

\* first span whose text passes the test; <<>> stands for none
RECURSIVE FirstText(_)
FirstText(spans) ==
  IF spans = <<>> THEN <<>>
  ELSE LET text == Head(spans).text
       IN  IF /\ text # <<>> /\ Trim(text) # <<>>
              /\ Len(text) > MinLabelLen /\ Len(text) < MaxLabelLen
              /\ ~MatchesTime(text) /\ ~IncludesHttp(text)
           THEN Trim(text)
           ELSE FirstText(Tail(spans))

\* `Contact ${Date.now()}`
Placeholder(now) == <<"C", "o", "n", "t", "a", "c", "t", " ">> \o Decimal(now)

\* the function evaluated in the page for one list item
ExtractName(el, now) ==
  IF FirstTitle(el.spans) # <<>> THEN FirstTitle(el.spans)
  ELSE IF FirstText(el.spans) # <<>> THEN FirstText(el.spans)
  ELSE Placeholder(now)

\* the for loop taking the items from the end of the list
PushNames_LastFirst(chats, i, top3Names, ops, failAt, nowAt) ==
  [threw |-> FALSE,
   names |-> [j \in 1..(IF Len(chats) < TopN THEN Len(chats) ELSE TopN) |->
                ExtractName(chats[Len(chats) + 1 - j], nowAt[j])]]

\* the for loop over the first Math.min(3, chats.length) items; ops is the
\* number of page operations issued before it, nowAt[i] the clock of the
\* page when item i is evaluated
RECURSIVE PushNames(_, _, _, _, _, _)
PushNames(chats, i, top3Names, ops, failAt, nowAt) ==
  IF i > (IF Len(chats) < TopN THEN Len(chats) ELSE TopN)
  THEN [threw |-> FALSE, names |-> top3Names]
  ELSE IF failAt = ops + 1
  THEN [threw |-> TRUE, names |-> top3Names]
  ELSE PushNames(chats, i + 1, Append(top3Names, ExtractName(chats[i], nowAt[i])),
                 ops + 1, failAt, nowAt)

\* the padding loop left out
PadTop3_NoPadding(top3Names) == top3Names

\* while (top3Names.length < 3) top3Names.push('')
RECURSIVE PadTop3(_)
PadTop3(top3Names) ==
  IF Len(top3Names) < TopN THEN PadTop3(Append(top3Names, <<>>)) ELSE top3Names

\* Array.prototype.slice(0, n): at most the first n elements
Slice(a, n) == SubSeq(a, 1, IF Len(a) < n THEN Len(a) ELSE n)

NoChatsFound ==
  << <<"N", "o", " ", "c", "h", "a", "t", "s", " ", "f", "o", "u", "n", "d">>,
     <<>>, <<>> >>

ErrorTop3 == << <<"E", "r", "r", "o", "r">>, <<>>, <<>> >>

\* getSimpleTop3Names on document d
getSimpleTop3Names(d, nowAt, failAt) ==
  LET found == FindChats(d, 1, failAt)
  IN  IF found.threw THEN ErrorTop3
      ELSE IF Len(found.chats) = 0 THEN NoChatsFound
      ELSE LET pushed == PushNames(found.chats, 1, <<>>, found.ops, failAt, nowAt)
           IN  IF pushed.threw THEN ErrorTop3
               ELSE Slice(PadTop3(pushed.names), TopN)

\* most page operations one extraction issues: a query per selector and an
\* evaluation per item
MaxOps == Len(chatSelectors) + TopN

\* the for loop of arraysEqual returning after its first comparison
EqualFrom_FirstOnly(a, b, i) == a = <<>> \/ a[1] = b[1]

\* arraysEqual(a, b)
RECURSIVE EqualFrom(_, _, _)
EqualFrom(a, b, i) ==
  IF i > Len(a) THEN TRUE
  ELSE IF a[i] # b[i] THEN FALSE
  ELSE EqualFrom(a, b, i + 1)

\* the arrays compared as objects (a !== b): two arrays are never the same
arraysEqual_ByIdentity(a, b) == FALSE

arraysEqual(a, b) ==
  IF Len(a) # Len(b) THEN FALSE ELSE EqualFrom(a, b, 1)


(* ------------------------------ documents ------------------------------ *)

Span(hasTitle, title, text) ==
  [hasTitle |-> hasTitle, title |-> title, text |-> text]

\* a list item whose only span carries the name as title and as text
Named(within, name) ==
  [within |-> within, spans |-> <<Span(TRUE, name, name)>>]

Alice == <<"A", "l", "i", "c", "e">>
Bob   == <<"B", "o", "b">>
Carol == <<"C", "a", "r", "o", "l">>
Dave  == <<"D", "a", "v", "e">>

\* the documents the page shows while the poll loop runs
DocABC == <<Named({"pane-side"}, Alice), Named({"pane-side"}, Bob),
            Named({"pane-side"}, Carol)>>
DocDAB == <<Named({"pane-side"}, Dave), Named({"pane-side"}, Alice),
            Named({"pane-side"}, Bob)>>
DocNone == <<>>

PollDocs == {DocABC, DocDAB, DocNone}

\* list items of the extraction check: a titled item, an item whose first
\* text is a time, an item without spans, an item whose title is one
\* letter after trimming, an item whose title is too long and whose text
\* is a link
ItemTitled == Named({"chat-list", "pane-side"}, Alice)
ItemTimed ==
  [within |-> {},
   spans |-> <<Span(FALSE, <<>>, <<"1", "2", ":", "3", "0">>),
               Span(FALSE, <<>>, Bob)>>]
ItemBare == [within |-> {"pane-side"}, spans |-> <<>>]
ItemShort ==
  [within |-> {"side"}, spans |-> <<Span(TRUE, <<" ", "a">>, <<" ", "a">>)>>]
ItemLong ==
  [within |-> {"chat-list"},
   spans |-> <<Span(TRUE, Rep("x", MaxLabelLen),
                    <<"h", "t", "t", "p", ":", "/", "/", "x">>)>>]

Items == {ItemTitled, ItemTimed, ItemBare, ItemShort, ItemLong}

\* all documents of at most MaxChats list items
ExtractDocs == UNION {[1..n -> Items] : n \in 0..MaxChats}

\* the clock values of the TopN evaluations of one extraction
Clocks == [1..TopN -> 0..MaxNow]

(* -------------------------------- state -------------------------------- *)

\* the indices of emailConfigs
ConfigIds == 0..(NumConfigs - 1)

\* the two calls of startMonitoring a notifier receives: from initialize()
\* and from the timer of the /api/start handler
Loops == {"init", "timer"}

\* the callers of stop(): the /api/stop handler and a signal handler
Callers == {"api", "signal"}

VARIABLES
  entry,              \* "main": node app.js; "server": node server.js
  proc,               \* "running" or "exited"
  globalNotifier,     \* global.notifier is set (app.js main)
  srvNotifier,        \* server.js: notifier is not null
  srvIsRunning,       \* server.js: isRunning
  timer,              \* the setTimeout of /api/start: "none", "armed", "fired"
  initPc,             \* initialize(): "none", "launching", "authenticating", "done", "failed"
  processedMessages,  \* this.processedMessages (lastMessageStates goes with it):
                      \*   <<>> when undefined, else <<the set of message ids>>
  historySaved,       \* saveProcessedMessages: "no" (writeFileSync not reached),
                      \*   "written", "raised" (writeFileSync raised)
  persisted,          \* processed-messages.json as this process wrote it: <<>>
                      \*   when it did not, else <<the set of message ids>>
  browser,            \* this.browser: "null", "open", "closed"
  doc,                \* the document the page shows
  isRunning,          \* this.isRunning
  savedTop3,          \* this.savedTop3
  pc,                 \* per loop: "idle", "baseline", "sleep", "extract", "send", "exited"
  currentTop3,        \* per loop: currentTop3 of the tick in progress
  stopPc,             \* per caller of stop(): "none", "closing", "done"
  ticks,              \* ticks started so far
  lastExtracted,      \* history: the snapshot extracted last, <<>> before the first
  changes,            \* history: extractions that differ from the one before
  notified,           \* history: NotificationEvents emitted
  mailCalls,          \* history: calls of emailTransporter.sendMail
  sendFailed,         \* history: the sendMail call that completed last raised
  stopCalled,         \* history: stop() has been called on the notifier
  sigMonitoring,      \* history: a signal arrived while the notifier was monitoring
  top3Out,            \* the result of the extraction under check, <<>> before
  failAtIn,           \* the page operation that raised in that extraction, 0: none
  foundOut,           \* the result of the selector chain in that extraction
  eqA,                \* arraysEqual under check: its first argument
  eqB,                \* arraysEqual under check: its second argument
  eqOut,              \* arraysEqual under check: <<its result>>, <<>> before
  authPc,             \* waitForAuthentication: "none", "detect", "qrwait", "settle",
                      \*   "caught", "returned", "thrown"
  attempt,            \* waitForAuthentication: attempt of the QR wait loop
  authOutcome,        \* waitForAuthentication: "none", "already", "scanned",
                      \*   "timeout", "neither", "raised"
  env,                \* the variables of process.env that are set
  notifiers,          \* control surface: the notifiers constructed so far
  ctlNotifier,        \* control surface: notifier (global.notifier), 0: null
  ctlIsRunning,       \* control surface: isRunning of server.js
  ctlTimers,          \* control surface: timers of /api/start not yet fired
  ctlStopping,        \* control surface: notifiers whose stop() awaits close
  lastReply,          \* control surface: the response sent last
  verifyIn,           \* mail: per configuration, what verifying it does
  verifyI,            \* verifyEmailConnection: the loop variable i
  emailTransporter,   \* this.emailTransporter: the configuration it was made of
  currentConfigIndex, \* this.currentConfigIndex
  verifyOut,          \* verifyEmailConnection: <<its result>>, <<>> before
  verifyAttempts,     \* history: configurations verifyEmailConnection tried
  missedLog,          \* entries written to missed-messages.log
  clock,              \* clock: Date.now() of the page at the last event, in ms
  wakeAt,             \* clock: per loop, when its wait in progress is over
  issued              \* clock: placeholders of the snapshots extracted so far

vars == <<entry, proc, globalNotifier, srvNotifier, srvIsRunning, timer, initPc,
          processedMessages, historySaved, persisted, browser, doc, isRunning, savedTop3,
          pc, currentTop3, stopPc, ticks, lastExtracted, changes, notified,
          mailCalls, sendFailed, stopCalled, sigMonitoring, top3Out,
          failAtIn, foundOut, eqA, eqB, eqOut, authPc, attempt, authOutcome,
          env, notifiers, ctlNotifier, ctlIsRunning, ctlTimers, ctlStopping,
          lastReply, verifyIn, verifyI, emailTransporter, currentConfigIndex,
          verifyOut, verifyAttempts, missedLog, clock, wakeAt, issued>>

procVars == <<globalNotifier, srvNotifier, srvIsRunning, timer>>
histVars == <<lastExtracted, changes, notified, mailCalls, sendFailed>>

\* the variables of one notifier and of the process that runs it
mainVars == <<entry, proc, procVars, initPc, processedMessages, historySaved, persisted,
              browser, doc, isRunning, savedTop3, pc, currentTop3, stopPc,
              ticks, histVars, stopCalled, sigMonitoring>>

\* the variables of the operations checked on their own
extractVars == <<top3Out, failAtIn, foundOut>>
equalVars == <<eqA, eqB, eqOut>>
authVars == <<authPc, attempt, authOutcome>>
ctlVars == <<env, notifiers, ctlNotifier, ctlIsRunning, ctlTimers, ctlStopping,
             lastReply>>
mailVars == <<verifyIn, verifyI, emailTransporter, currentConfigIndex,
              verifyOut, verifyAttempts, missedLog>>
clockVars == <<clock, wakeAt, issued>>
sideVars == <<extractVars, equalVars, mailVars, clockVars, authVars, ctlVars>>

\* no extraction under check has been made
ExtractIdle ==
  /\ top3Out = <<>>
  /\ failAtIn = 0
  /\ foundOut = [threw |-> FALSE, chats |-> <<>>, ops |-> 0]

\* no comparison under check has been made
EqualIdle ==
  /\ eqA = <<>>
  /\ eqB = <<>>
  /\ eqOut = <<>>

\* waitForAuthentication has not been entered
AuthIdle ==
  /\ authPc = "none"
  /\ attempt = 0
  /\ authOutcome = "none"

\* verifyEmailConnection has not been called: setupEmailTransporter made
\* the transporter of configuration 0
MailIdle ==
  /\ verifyIn = [i \in ConfigIds |-> "ok"]
  /\ verifyI = 0
  /\ emailTransporter = 0
  /\ currentConfigIndex = 0
  /\ verifyOut = <<>>
  /\ verifyAttempts = 0
  /\ missedLog = 0

\* no extraction has been timed
ClockIdle ==
  /\ clock = 0
  /\ wakeAt = [l \in Loops |-> 0]
  /\ issued = {}

\* the configuration main() requires of process.env
RequiredEnv == {"EMAIL_USER", "EMAIL_PASS", "EMAIL_TO"}

\* a notifier that has not been constructed
NoNotifier == [st |-> "none", running |-> FALSE, browser |-> "null"]

\* server.js after its module code ran: notifier = null, isRunning = false
ControlIdle ==
  /\ notifiers = [k \in 1..MaxNotifiers |-> NoNotifier]
  /\ ctlNotifier = 0
  /\ ctlIsRunning = FALSE
  /\ ctlTimers = 0
  /\ ctlStopping = {}
  /\ lastReply = "none"

Init ==
  /\ entry \in {"main", "server"}
  /\ proc = "running"
  /\ globalNotifier = FALSE
  /\ srvNotifier = FALSE
  /\ srvIsRunning = FALSE
  /\ timer = "none"
  /\ initPc = "none"
  /\ processedMessages = <<>>
  /\ historySaved = "no"
  /\ persisted = <<>>
  /\ browser = "null"
  /\ doc = DocABC
  /\ isRunning = FALSE
  /\ savedTop3 = <<>>
  /\ pc = [l \in Loops |-> "idle"]
  /\ currentTop3 = [l \in Loops |-> <<>>]
  /\ stopPc = [c \in Callers |-> "none"]
  /\ ticks = 0
  /\ lastExtracted = <<>>
  /\ changes = 0
  /\ notified = 0
  /\ mailCalls = 0
  /\ sendFailed = FALSE
  /\ stopCalled = FALSE
  /\ sigMonitoring = FALSE
  /\ ExtractIdle
  /\ EqualIdle
  /\ AuthIdle
  /\ env = RequiredEnv
  /\ ControlIdle
  /\ MailIdle
  /\ ClockIdle

(* ------------------------------ operations ----------------------------- *)

\* the snapshots an extraction of document d can return: any one page
\* operation may raise, and every page operation raises once the browser
\* is closed
ExtractionsOf(d, closed) ==
  {getSimpleTop3Names(d, nowAt, failAt) :
     nowAt \in Clocks,
     failAt \in (IF closed THEN {1} ELSE 0..MaxOps)}

\* ExtractionsOf tabulated for the documents of the poll loop
PollExtractions ==
  {<<d, closed, ExtractionsOf(d, closed)>> : d \in PollDocs, closed \in BOOLEAN}

\* the snapshots an extraction can return in the current state
Extractions ==
  IF doc \in PollDocs
  THEN (CHOOSE t \in PollExtractions :
          t[1] = doc /\ t[2] = (browser = "closed"))[3]
  ELSE ExtractionsOf(doc, browser = "closed")

\* history of the extracted snapshots
Extracted(snap) ==
  /\ lastExtracted' = snap
  /\ changes' = IF lastExtracted # <<>> /\ snap # lastExtracted
                THEN changes + 1 ELSE changes

\* while (this.isRunning): the next await of the loop, or its end
LoopTest(running) == IF running THEN "sleep" ELSE "exited"

\* the message ids a history file can hold
MessageIds == {"m1", "m2"}

\* what the constructor can leave in processedMessages: nothing, or the
\* set of ids of the history file
Histories == {<<>>} \cup {<<ids>> : ids \in SUBSET MessageIds}

\* the constructor: loadProcessedMessages defines processedMessages only
\* when the history file exists and parses
Construct(loaded) ==
  /\ processedMessages' = loaded
  /\ UNCHANGED <<historySaved, persisted, browser, isRunning, savedTop3>>

\* main(): the configuration test, the constructor and initialize() up to
\* puppeteer.launch
MainStart ==
  /\ proc = "running" /\ entry = "main" /\ initPc = "none"
  /\ \E envOk \in BOOLEAN :
       IF envOk
       THEN /\ \E loaded \in {<<>>, <<MessageIds>>} : Construct(loaded)
            /\ globalNotifier' = TRUE
            /\ initPc' = "launching"
            /\ proc' = proc
       ELSE /\ proc' = "exited"
            /\ UNCHANGED <<globalNotifier, initPc, processedMessages,
                           historySaved, persisted, browser, isRunning, savedTop3>>
  /\ UNCHANGED <<entry, srvNotifier, srvIsRunning, timer, doc, pc, currentTop3,
                 stopPc, ticks, histVars, stopCalled, sigMonitoring, sideVars>>

\* POST /api/start with a valid body: the constructor and initialize() up
\* to puppeteer.launch.  One notifier is followed: the request is taken
\* while none has been constructed.
PostStart ==
  /\ proc = "running" /\ entry = "server"
  /\ ~srvIsRunning
  /\ initPc = "none"
  /\ \E loaded \in {<<>>, <<MessageIds>>} : Construct(loaded)
  /\ srvNotifier' = TRUE
  /\ initPc' = "launching"
  /\ UNCHANGED <<entry, proc, globalNotifier, srvIsRunning, timer, doc, pc,
                 currentTop3, stopPc, ticks, histVars, stopCalled,
                 sigMonitoring, sideVars>>

\* initialize(): the browser is launched and the page opened, or a step
\* raises and initialize() rethrows (main() then exits with code 1)
InitLaunched ==
  /\ proc = "running" /\ initPc = "launching"
  /\ \E ok \in BOOLEAN :
       IF ok
       THEN /\ browser' = "open"
            /\ initPc' = "authenticating"
            /\ proc' = proc
       ELSE /\ browser' = browser
            /\ initPc' = "failed"
            /\ proc' = IF entry = "main" THEN "exited" ELSE proc
  /\ UNCHANGED <<entry, procVars, processedMessages, historySaved, persisted, doc,
                 isRunning, savedTop3, pc, currentTop3, stopPc, ticks, histVars,
                 stopCalled, sigMonitoring, sideVars>>

\* startMonitoring() up to its first await, inside getSimpleTop3Names
StartMonitoring(l) ==
  /\ isRunning' = TRUE
  /\ pc' = [pc EXCEPT ![l] = "baseline"]

\* the variables initialize() leaves alone after the browser is launched
initFrame == <<entry, globalNotifier, srvNotifier, processedMessages,
               historySaved, persisted, browser, doc, savedTop3, currentTop3, stopPc,
               ticks, histVars, stopCalled, sigMonitoring>>

\* initialize() after waitForAuthentication returned: startMonitoring() is
\* called without await, so initialize() returns at once; the /api/start
\* handler then sets isRunning and arms the 3000 ms timer
InitProceeds ==
  /\ StartMonitoring("init")
  /\ initPc' = "done"
  /\ srvIsRunning' = (entry = "server")
  /\ timer' = IF entry = "server" THEN "armed" ELSE timer
  /\ proc' = proc

\* initialize() after waitForAuthentication raised: the catch logs and
\* rethrows; main() exits with code 1, the /api/start handler answers 500
InitAborts ==
  /\ initPc' = "failed"
  /\ proc' = IF entry = "main" THEN "exited" ELSE proc
  /\ UNCHANGED <<isRunning, pc, srvIsRunning, timer>>

\* initialize(): waitForAuthentication returns or raises
InitAuthenticated ==
  /\ proc = "running" /\ initPc = "authenticating"
  /\ \E ok \in BOOLEAN : IF ok THEN InitProceeds ELSE InitAborts
  /\ UNCHANGED <<initFrame, sideVars>>

\* the timer of /api/start fires: a second startMonitoring() on the notifier
TimerFired ==
  /\ proc = "running" /\ timer = "armed"
  /\ timer' = "fired"
  /\ IF srvNotifier /\ srvIsRunning
     THEN StartMonitoring("timer")
     ELSE UNCHANGED <<isRunning, pc>>
  /\ UNCHANGED <<entry, proc, globalNotifier, srvNotifier, srvIsRunning, initPc,
                 processedMessages, historySaved, persisted, browser, doc, savedTop3,
                 currentTop3, stopPc, ticks, histVars, stopCalled,
                 sigMonitoring, sideVars>>

\* the initial snapshot treated as a first tick: compared with the empty
\* savedTop3 and notified
BaselineDone_Notified(l) ==
  /\ proc = "running" /\ pc[l] = "baseline"
  /\ \E snap \in Extractions :
       /\ savedTop3' = snap
       /\ Extracted(snap)
  /\ notified' = notified + 1
  /\ mailCalls' = mailCalls + 1
  /\ pc' = [pc EXCEPT ![l] = LoopTest(isRunning)]
  /\ UNCHANGED <<entry, proc, procVars, initPc, processedMessages,
                 historySaved, persisted, browser, doc, isRunning, currentTop3, stopPc,
                 ticks, sendFailed, stopCalled, sigMonitoring, sideVars>>

\* startMonitoring(): the initial snapshot is stored as the baseline and
\* the loop is entered
BaselineDone(l) ==
  /\ proc = "running" /\ pc[l] = "baseline"
  /\ \E snap \in Extractions :
       /\ savedTop3' = snap
       /\ Extracted(snap)
  /\ pc' = [pc EXCEPT ![l] = LoopTest(isRunning)]
  /\ UNCHANGED <<entry, proc, procVars, initPc, processedMessages,
                 historySaved, persisted,
                 browser, doc, isRunning, currentTop3, stopPc, ticks, notified,
                 mailCalls, sendFailed, stopCalled, sigMonitoring, sideVars>>

\* a tick: page.waitForTimeout(5000) is over and getSimpleTop3Names starts.
\* The wait is a plain timer and does not reject, getSimpleTop3Names and
\* sendTop3Notification catch what is raised inside them: the catch of
\* the loop is not entered.
TickWake(l) ==
  /\ proc = "running" /\ pc[l] = "sleep"
  /\ ticks < MaxTicks
  /\ ticks' = ticks + 1
  /\ pc' = [pc EXCEPT ![l] = "extract"]
  /\ UNCHANGED <<entry, proc, procVars, initPc, processedMessages,
                 historySaved, persisted,
                 browser, doc, isRunning, savedTop3, currentTop3, stopPc,
                 histVars, stopCalled, sigMonitoring, sideVars>>

\* sendTop3Notification up to the await of sendMail
sendTop3Notification(l, newTop3) ==
  /\ mailCalls' = mailCalls + 1
  /\ pc' = [pc EXCEPT ![l] = "send"]

\* an extraction that raised ends the loop: the catch of the extraction
\* taken as one around the while loop
TickExtracted_RaiseEndsLoop(l) ==
  /\ proc = "running" /\ pc[l] = "extract"
  /\ \E snap \in Extractions :
       /\ Extracted(snap)
       /\ currentTop3' = [currentTop3 EXCEPT ![l] = snap]
       /\ IF snap = ErrorTop3
          THEN /\ pc' = [pc EXCEPT ![l] = "exited"]
               /\ UNCHANGED <<notified, mailCalls>>
          ELSE IF ~arraysEqual(snap, savedTop3)
          THEN /\ notified' = notified + 1
               /\ sendTop3Notification(l, snap)
          ELSE /\ pc' = [pc EXCEPT ![l] = LoopTest(isRunning)]
               /\ UNCHANGED <<notified, mailCalls>>
  /\ UNCHANGED <<entry, proc, procVars, initPc, processedMessages,
                 historySaved, persisted,
                 browser, doc, isRunning, savedTop3, stopPc, ticks, sendFailed,
                 stopCalled, sigMonitoring, sideVars>>

\* a tick: the snapshot is extracted and compared with the baseline; on a
\* change the notification is dispatched, else the tick ends
TickExtracted(l) ==
  /\ proc = "running" /\ pc[l] = "extract"
  /\ \E snap \in Extractions :
       /\ Extracted(snap)
       /\ currentTop3' = [currentTop3 EXCEPT ![l] = snap]
       /\ IF ~arraysEqual(snap, savedTop3)
          THEN /\ notified' = notified + 1
               /\ sendTop3Notification(l, snap)
          ELSE /\ pc' = [pc EXCEPT ![l] = LoopTest(isRunning)]
               /\ UNCHANGED <<notified, mailCalls>>
  /\ UNCHANGED <<entry, proc, procVars, initPc, processedMessages,
                 historySaved, persisted,
                 browser, doc, isRunning, savedTop3, stopPc, ticks, sendFailed,
                 stopCalled, sigMonitoring, sideVars>>

\* sendTop3Notification without its catch: a raise of sendMail reaches the
\* catch of the loop and the baseline is not replaced
TickSent_RaiseEscapes(l) ==
  /\ proc = "running" /\ pc[l] = "send"
  /\ \E ok \in BOOLEAN :
       /\ sendFailed' = ~ok
       /\ savedTop3' = IF ok THEN currentTop3[l] ELSE savedTop3
  /\ pc' = [pc EXCEPT ![l] = LoopTest(isRunning)]
  /\ UNCHANGED <<entry, proc, procVars, initPc, processedMessages,
                 historySaved, persisted, browser, doc, isRunning, currentTop3, stopPc,
                 ticks, lastExtracted, changes, notified, mailCalls, stopCalled,
                 sigMonitoring, sideVars>>

\* a raise of sendMail answered by a second sendMail call for the same event
TickSent_Retried(l) ==
  /\ proc = "running" /\ pc[l] = "send"
  /\ \E ok \in BOOLEAN :
       /\ sendFailed' = ~ok
       /\ IF ok \/ sendFailed
          THEN /\ savedTop3' = currentTop3[l]
               /\ pc' = [pc EXCEPT ![l] = LoopTest(isRunning)]
               /\ mailCalls' = mailCalls
          ELSE /\ mailCalls' = mailCalls + 1
               /\ UNCHANGED <<savedTop3, pc>>
  /\ UNCHANGED <<entry, proc, procVars, initPc, processedMessages,
                 historySaved, persisted, browser, doc, isRunning, currentTop3, stopPc,
                 ticks, lastExtracted, changes, notified, stopCalled,
                 sigMonitoring, sideVars>>

\* a tick that records the notified event in processedMessages
TickSent_MarksProcessed(l) ==
  /\ proc = "running" /\ pc[l] = "send"
  /\ \E ok \in BOOLEAN : sendFailed' = ~ok
  /\ savedTop3' = currentTop3[l]
  /\ pc' = [pc EXCEPT ![l] = LoopTest(isRunning)]
  /\ processedMessages' = IF processedMessages = <<>>
                          THEN <<{"m1"}>>
                          ELSE <<processedMessages[1] \cup {"m1"}>>
  /\ UNCHANGED <<entry, proc, procVars, initPc,
                 historySaved, persisted,
                 browser, doc, isRunning, currentTop3, stopPc, ticks,
                 lastExtracted, changes, notified, mailCalls, stopCalled,
                 sigMonitoring, sideVars>>

\* a tick: sendMail returns or raises (the catch of sendTop3Notification
\* logs), the baseline is replaced and the tick ends
TickSent(l) ==
  /\ proc = "running" /\ pc[l] = "send"
  /\ \E ok \in BOOLEAN : sendFailed' = ~ok
  /\ savedTop3' = currentTop3[l]
  /\ pc' = [pc EXCEPT ![l] = LoopTest(isRunning)]
  /\ UNCHANGED <<entry, proc, procVars, initPc, processedMessages,
                 historySaved, persisted,
                 browser, doc, isRunning, currentTop3, stopPc, ticks,
                 lastExtracted, changes, notified, mailCalls, stopCalled,
                 sigMonitoring, sideVars>>

\* the conversation list of the page changes
PageChange ==
  /\ proc = "running" /\ browser = "open"
  /\ pc # [l \in Loops |-> "idle"]
  /\ \E d \in PollDocs \ {doc} : doc' = d
  /\ UNCHANGED <<entry, proc, procVars, initPc, processedMessages,
                 historySaved, persisted,
                 browser, isRunning, savedTop3, pc, currentTop3, stopPc, ticks,
                 histVars, stopCalled, sigMonitoring, sideVars>>

\* saveProcessedMessages: Array.from(this.processedMessages) raises inside
\* the try when processedMessages is undefined, before writeFileSync is
\* reached; else writeFileSync writes the document or raises.  The catch
\* logs either way.
saveProcessedMessages ==
  IF processedMessages # <<>>
  THEN \E written \in BOOLEAN :
         /\ historySaved' = IF written \/ historySaved = "written"
                            THEN "written" ELSE "raised"
         /\ persisted' = IF written THEN processedMessages ELSE persisted
  ELSE UNCHANGED <<historySaved, persisted>>

\* stop() up to the await of browser.close(): the flag is cleared and
\* saveProcessedMessages runs
StopBegin ==
  /\ isRunning' = FALSE
  /\ stopCalled' = TRUE
  /\ saveProcessedMessages

\* POST /api/stop: stop() is called on the notifier
PostStop ==
  /\ proc = "running" /\ entry = "server"
  /\ srvIsRunning /\ srvNotifier
  /\ stopPc["api"] = "none"
  /\ StopBegin
  /\ stopPc' = [stopPc EXCEPT !["api"] = "closing"]
  /\ UNCHANGED <<entry, proc, procVars, initPc, processedMessages, browser, doc,
                 savedTop3, pc, currentTop3, ticks, histVars, sigMonitoring,
                 sideVars>>

\* browser.close() returns: stop() is complete; the /api/stop handler
\* clears notifier and isRunning, a signal handler calls process.exit(0)
StopClosed(c) ==
  /\ proc = "running" /\ stopPc[c] = "closing"
  /\ browser' = "closed"
  /\ stopPc' = [stopPc EXCEPT ![c] = "done"]
  /\ IF c = "api"
     THEN /\ srvNotifier' = FALSE
          /\ srvIsRunning' = FALSE
          /\ proc' = proc
     ELSE /\ proc' = "exited"
          /\ UNCHANGED <<srvNotifier, srvIsRunning>>
  /\ UNCHANGED <<entry, globalNotifier, timer, initPc, processedMessages,
                 historySaved, persisted, doc, isRunning, savedTop3, pc, currentTop3,
                 ticks, histVars, stopCalled, sigMonitoring, sideVars>>

\* SIGINT or SIGTERM.  The handler of app.js is registered first (server.js
\* requires app.js before it registers its own) and runs first: it stops
\* global.notifier when that is set and calls process.exit(0), at once
\* when there is nothing to await.
Signal ==
  /\ proc = "running"
  /\ stopPc["signal"] = "none"
  /\ sigMonitoring' = (sigMonitoring \/ isRunning)
  /\ IF globalNotifier
     THEN /\ StopBegin
          /\ IF browser = "null"
             THEN /\ stopPc' = [stopPc EXCEPT !["signal"] = "done"]
                  /\ proc' = "exited"
             ELSE /\ stopPc' = [stopPc EXCEPT !["signal"] = "closing"]
                  /\ proc' = proc
     ELSE /\ proc' = "exited"
          /\ UNCHANGED <<isRunning, stopCalled, historySaved, persisted, stopPc>>
  /\ UNCHANGED <<entry, procVars, initPc, processedMessages, browser, doc,
                 savedTop3, pc, currentTop3, ticks, histVars, sideVars>>

Next ==
  \/ MainStart
  \/ PostStart
  \/ InitLaunched
  \/ InitAuthenticated
  \/ TimerFired
  \/ \E l \in Loops : BaselineDone(l)
  \/ \E l \in Loops : TickWake(l)
  \/ \E l \in Loops : TickExtracted(l)
  \/ \E l \in Loops : TickSent(l)
  \/ PageChange
  \/ PostStop
  \/ \E c \in Callers : StopClosed(c)
  \/ Signal

Spec == Init /\ [][Next]_vars

TypeOK ==
  /\ entry \in {"main", "server"}
  /\ proc \in {"running", "exited"}
  /\ pc \in [Loops -> {"idle", "baseline", "sleep", "extract", "send", "exited"}]
  /\ browser \in {"null", "open", "closed"}
  /\ ticks \in 0..MaxTicks
  /\ Len(savedTop3) \in {0, TopN}

(* ------------------ getSimpleTop3Names on any document ------------------ *)

\* the extraction alone: the page shows any document of ExtractDocs and
\* getSimpleTop3Names is called once on it
InitExtract ==
  /\ entry = "main"
  /\ proc = "running"
  /\ globalNotifier = FALSE
  /\ srvNotifier = FALSE
  /\ srvIsRunning = FALSE
  /\ timer = "none"
  /\ initPc = "none"
  /\ processedMessages = <<>>
  /\ historySaved = "no"
  /\ persisted = <<>>
  /\ browser = "open"
  /\ doc \in ExtractDocs
  /\ isRunning = FALSE
  /\ savedTop3 = <<>>
  /\ pc = [l \in Loops |-> "idle"]
  /\ currentTop3 = [l \in Loops |-> <<>>]
  /\ stopPc = [c \in Callers |-> "none"]
  /\ ticks = 0
  /\ lastExtracted = <<>>
  /\ changes = 0
  /\ notified = 0
  /\ mailCalls = 0
  /\ sendFailed = FALSE
  /\ stopCalled = FALSE
  /\ sigMonitoring = FALSE
  /\ ExtractIdle
  /\ EqualIdle
  /\ AuthIdle
  /\ env = RequiredEnv
  /\ ControlIdle
  /\ MailIdle
  /\ ClockIdle

\* getSimpleTop3Names is called: any clock, any one page operation raising
ExtractApply ==
  /\ top3Out = <<>>
  /\ \E nowAt \in Clocks, failAt \in 0..MaxOps :
       /\ top3Out' = getSimpleTop3Names(doc, nowAt, failAt)
       /\ failAtIn' = failAt
       /\ foundOut' = FindChats(doc, 1, failAt)
  /\ UNCHANGED <<mainVars, equalVars, mailVars, clockVars, authVars, ctlVars>>

NextExtract == ExtractApply

SpecExtract == InitExtract /\ [][NextExtract]_vars

(* ------------------- the poll loop under main(), fair ------------------- *)

\* main() has constructed the notifier and initialize() has called
\* startMonitoring(): the one poll loop of the process is at its baseline
InitLoop ==
  /\ entry = "main"
  /\ proc = "running"
  /\ globalNotifier = TRUE
  /\ srvNotifier = FALSE
  /\ srvIsRunning = FALSE
  /\ timer = "none"
  /\ initPc = "done"
  /\ processedMessages \in Histories
  /\ historySaved = "no"
  /\ persisted = <<>>
  /\ browser = "open"
  /\ doc = DocABC
  /\ isRunning = TRUE
  /\ savedTop3 = <<>>
  /\ pc = [l \in Loops |-> IF l = "init" THEN "baseline" ELSE "idle"]
  /\ currentTop3 = [l \in Loops |-> <<>>]
  /\ stopPc = [c \in Callers |-> "none"]
  /\ ticks = 0
  /\ lastExtracted = <<>>
  /\ changes = 0
  /\ notified = 0
  /\ mailCalls = 0
  /\ sendFailed = FALSE
  /\ stopCalled = FALSE
  /\ sigMonitoring = FALSE
  /\ ExtractIdle
  /\ EqualIdle
  /\ AuthIdle
  /\ env = RequiredEnv
  /\ ControlIdle
  /\ MailIdle
  /\ ClockIdle

NextLoop ==
  \/ BaselineDone("init")
  \/ TickWake("init")
  \/ TickExtracted("init")
  \/ TickSent("init")
  \/ PageChange
  \/ Signal
  \/ StopClosed("signal")

\* the timer of the wait fires, the page answers or raises, sendMail
\* returns or raises: each step of the loop that can be taken is taken
LoopFairness ==
  /\ WF_vars(BaselineDone("init"))
  /\ WF_vars(TickWake("init"))
  /\ WF_vars(TickExtracted("init"))
  /\ WF_vars(TickSent("init"))

SpecLoop == InitLoop /\ [][NextLoop]_vars /\ LoopFairness

(* ------------------------ waitForAuthentication ------------------------- *)

\* initialize() has launched the browser and opened the page and enters
\* waitForAuthentication, under main() or under the /api/start handler
InitAuth ==
  /\ entry \in {"main", "server"}
  /\ proc = "running"
  /\ globalNotifier = (entry = "main")
  /\ srvNotifier = (entry = "server")
  /\ srvIsRunning = FALSE
  /\ timer = "none"
  /\ initPc = "authenticating"
  /\ processedMessages = <<>>
  /\ historySaved = "no"
  /\ persisted = <<>>
  /\ browser = "open"
  /\ doc = DocABC
  /\ isRunning = FALSE
  /\ savedTop3 = <<>>
  /\ pc = [l \in Loops |-> "idle"]
  /\ currentTop3 = [l \in Loops |-> <<>>]
  /\ stopPc = [c \in Callers |-> "none"]
  /\ ticks = 0
  /\ lastExtracted = <<>>
  /\ changes = 0
  /\ notified = 0
  /\ mailCalls = 0
  /\ sendFailed = FALSE
  /\ stopCalled = FALSE
  /\ sigMonitoring = FALSE
  /\ ExtractIdle
  /\ EqualIdle
  /\ authPc = "detect"
  /\ attempt = 0
  /\ authOutcome = "none"
  /\ env = RequiredEnv
  /\ ControlIdle
  /\ MailIdle
  /\ ClockIdle

\* waitForAuthentication up to its branch on qrCode and chatInterface: the
\* promotion page, the authSelectors loop (each wait in its own try) and
\* the qrSelectors and chatSelectors loops, whose page.$ calls are inside
\* the try of the function only
AuthDetect ==
  /\ authPc = "detect"
  /\ \E seen \in {"qr", "chat", "neither", "raise"} :
       /\ authPc' = CASE seen = "qr" -> "qrwait"
                      [] seen = "raise" -> "caught"
                      [] OTHER -> "settle"
       /\ authOutcome' = CASE seen = "qr" -> authOutcome
                           [] seen = "chat" -> "already"
                           [] seen = "neither" -> "neither"
                           [] OTHER -> "raised"
  /\ UNCHANGED <<mainVars, extractVars, equalVars, mailVars, clockVars, attempt, ctlVars>>

\* one pass of the QR wait loop: the wait, the two queries and the
\* evaluation; the chat interface or its text is seen, or nothing is and
\* attempt is counted, or a page operation raises.  The loop ends without
\* authentication when attempt reaches maxAttempts.
AuthPoll ==
  /\ authPc = "qrwait" /\ attempt < maxAttempts
  /\ \E seen \in {"chat", "content", "nothing", "raise"} :
       CASE seen \in {"chat", "content"} ->
              /\ authPc' = "settle"
              /\ authOutcome' = "scanned"
              /\ attempt' = attempt
         [] seen = "nothing" ->
              /\ attempt' = attempt + 1
              /\ authPc' = IF attempt + 1 < maxAttempts THEN "qrwait" ELSE "settle"
              /\ authOutcome' = IF attempt + 1 < maxAttempts
                                THEN authOutcome ELSE "timeout"
         [] OTHER ->
              /\ authPc' = "caught"
              /\ authOutcome' = "raised"
              /\ attempt' = attempt
  /\ UNCHANGED <<mainVars, extractVars, equalVars, mailVars, clockVars, ctlVars>>

\* the last wait of waitForAuthentication is over and it returns:
\* initialize() goes on to startMonitoring()
AuthSettle ==
  /\ authPc = "settle"
  /\ authPc' = "returned"
  /\ InitProceeds
  /\ UNCHANGED <<initFrame, extractVars, equalVars, mailVars, clockVars, attempt, authOutcome,
                 ctlVars>>

\* the catch of waitForAuthentication: the error is logged, a screenshot
\* is taken and the error is thrown again; initialize() rethrows it
AuthCaught ==
  /\ authPc = "caught"
  /\ authPc' = "thrown"
  /\ InitAborts
  /\ UNCHANGED <<initFrame, extractVars, equalVars, mailVars, clockVars, attempt, authOutcome,
                 ctlVars>>

NextAuth ==
  \/ AuthDetect
  \/ AuthPoll
  \/ AuthSettle
  \/ AuthCaught

SpecAuth == InitAuth /\ [][NextAuth]_vars

(* ------------------ the control surface, all notifiers ------------------ *)

\* the process starts with any part of the required configuration set
InitControl ==
  /\ entry \in {"main", "server"}
  /\ proc = "running"
  /\ globalNotifier = FALSE
  /\ srvNotifier = FALSE
  /\ srvIsRunning = FALSE
  /\ timer = "none"
  /\ initPc = "none"
  /\ processedMessages = <<>>
  /\ historySaved = "no"
  /\ persisted = <<>>
  /\ browser = "null"
  /\ doc = DocABC
  /\ isRunning = FALSE
  /\ savedTop3 = <<>>
  /\ pc = [l \in Loops |-> "idle"]
  /\ currentTop3 = [l \in Loops |-> <<>>]
  /\ stopPc = [c \in Callers |-> "none"]
  /\ ticks = 0
  /\ lastExtracted = <<>>
  /\ changes = 0
  /\ notified = 0
  /\ mailCalls = 0
  /\ sendFailed = FALSE
  /\ stopCalled = FALSE
  /\ sigMonitoring = FALSE
  /\ ExtractIdle
  /\ EqualIdle
  /\ AuthIdle
  /\ env \in SUBSET RequiredEnv
  /\ ControlIdle
  /\ MailIdle
  /\ ClockIdle

\* the notifiers not yet constructed
Fresh == {k \in 1..MaxNotifiers : notifiers[k].st = "none"}

\* new WhatsAppEmailNotifier() followed by initialize() up to its first
\* await, puppeteer.launch; the reference is stored in notifier
\* (global.notifier under main)
NewNotifier ==
  /\ Fresh # {}
  /\ LET k == CHOOSE n \in Fresh : \A m \in Fresh : n <= m
     IN  /\ notifiers' = [notifiers EXCEPT ![k].st = "launching"]
         /\ ctlNotifier' = k

\* initialize() of a notifier raised: main() logs and exits with code 1,
\* the /api/start handler answers 500
StartFailed ==
  /\ lastReply' = "failed"
  /\ proc' = IF entry = "main" THEN "exited" ELSE proc

\* main(): the test of the required configuration, then the constructor
\* and initialize()
CtlMain ==
  /\ proc = "running" /\ entry = "main"
  /\ ctlNotifier = 0 /\ lastReply = "none"
  /\ IF env = RequiredEnv
     THEN /\ NewNotifier
          /\ UNCHANGED <<proc, lastReply>>
     ELSE /\ StartFailed
          /\ UNCHANGED <<notifiers, ctlNotifier>>
  /\ UNCHANGED <<entry, procVars, initPc, processedMessages, historySaved, persisted,
                 browser, doc, isRunning, savedTop3, pc, currentTop3, stopPc,
                 ticks, histVars, stopCalled, sigMonitoring, extractVars,
                 equalVars, mailVars, clockVars, authVars, env, ctlIsRunning, ctlTimers,
                 ctlStopping>>

\* POST /api/start: the isRunning test, the validation of the body,
\* updateEnvConfig (the reload of dotenv does not replace what process.env
\* already holds), then the constructor and initialize(); process.env is
\* not consulted
CtlPostStart ==
  /\ proc = "running" /\ entry = "server"
  /\ IF ctlIsRunning
     THEN /\ lastReply' = "already running"
          /\ UNCHANGED <<notifiers, ctlNotifier>>
     ELSE \E body \in {"incomplete", "complete"}, configUpdated \in BOOLEAN :
            IF body = "incomplete"
            THEN /\ lastReply' = "bad request"
                 /\ UNCHANGED <<notifiers, ctlNotifier>>
            ELSE IF ~configUpdated
            THEN /\ lastReply' = "config failed"
                 /\ UNCHANGED <<notifiers, ctlNotifier>>
            ELSE /\ NewNotifier
                 /\ lastReply' = lastReply
  /\ UNCHANGED <<mainVars, extractVars, equalVars, mailVars, clockVars, authVars, env,
                 ctlIsRunning, ctlTimers, ctlStopping>>

\* initialize() of notifier k: the browser is launched and the page
\* opened, or a step raises
CtlLaunched(k) ==
  /\ proc = "running" /\ notifiers[k].st = "launching"
  /\ \E ok \in BOOLEAN :
       IF ok
       THEN /\ notifiers' = [notifiers EXCEPT ![k].st = "authenticating",
                                              ![k].browser = "open"]
            /\ UNCHANGED <<proc, lastReply>>
       ELSE /\ notifiers' = [notifiers EXCEPT ![k].st = "failed"]
            /\ StartFailed
  /\ UNCHANGED <<entry, procVars, initPc, processedMessages, historySaved, persisted,
                 browser, doc, isRunning, savedTop3, pc, currentTop3, stopPc,
                 ticks, histVars, stopCalled, sigMonitoring, extractVars,
                 equalVars, mailVars, clockVars, authVars, env, ctlNotifier, ctlIsRunning,
                 ctlTimers, ctlStopping>>

\* initialize() of notifier k: waitForAuthentication returns and
\* startMonitoring() is called, the /api/start handler then sets isRunning,
\* answers and arms its timer; or waitForAuthentication raises
CtlAuthenticated(k) ==
  /\ proc = "running" /\ notifiers[k].st = "authenticating"
  /\ \E ok \in BOOLEAN :
       IF ok
       THEN /\ notifiers' = [notifiers EXCEPT ![k].st = "done",
                                              ![k].running = TRUE]
            /\ ctlIsRunning' = (entry = "server")
            /\ ctlTimers' = IF entry = "server" THEN ctlTimers + 1 ELSE ctlTimers
            /\ lastReply' = IF entry = "server" THEN "started" ELSE lastReply
            /\ proc' = proc
       ELSE /\ notifiers' = [notifiers EXCEPT ![k].st = "failed"]
            /\ StartFailed
            /\ UNCHANGED <<ctlIsRunning, ctlTimers>>
  /\ UNCHANGED <<entry, procVars, initPc, processedMessages, historySaved, persisted,
                 browser, doc, isRunning, savedTop3, pc, currentTop3, stopPc,
                 ticks, histVars, stopCalled, sigMonitoring, extractVars,
                 equalVars, mailVars, clockVars, authVars, env, ctlNotifier, ctlStopping>>

\* a timer of /api/start fires: startMonitoring() on the notifier the
\* variable refers to at that moment
CtlTimerFired ==
  /\ proc = "running" /\ ctlTimers > 0
  /\ ctlTimers' = ctlTimers - 1
  /\ notifiers' = IF ctlNotifier # 0 /\ ctlIsRunning
                  THEN [notifiers EXCEPT ![ctlNotifier].running = TRUE]
                  ELSE notifiers
  /\ UNCHANGED <<mainVars, extractVars, equalVars, mailVars, clockVars, authVars, env, ctlNotifier,
                 ctlIsRunning, ctlStopping, lastReply>>

\* POST /api/stop: stop() on the notifier the variable refers to, up to
\* the await of browser.close(); with no browser stop() is complete
CtlPostStop ==
  /\ proc = "running" /\ entry = "server"
  /\ IF ~ctlIsRunning \/ ctlNotifier = 0
     THEN /\ lastReply' = "not running"
          /\ UNCHANGED <<notifiers, ctlNotifier, ctlIsRunning, ctlStopping>>
     ELSE /\ notifiers' = [notifiers EXCEPT ![ctlNotifier].running = FALSE]
          /\ IF notifiers[ctlNotifier].browser = "null"
             THEN /\ ctlNotifier' = 0
                  /\ ctlIsRunning' = FALSE
                  /\ lastReply' = "stopped"
                  /\ UNCHANGED ctlStopping
             ELSE /\ ctlStopping' = ctlStopping \cup {ctlNotifier}
                  /\ UNCHANGED <<ctlNotifier, ctlIsRunning, lastReply>>
  /\ UNCHANGED <<mainVars, extractVars, equalVars, mailVars, clockVars, authVars, env, ctlTimers>>

\* browser.close() of notifier k returns: the /api/stop handler clears
\* notifier and isRunning and answers
CtlStopClosed(k) ==
  /\ proc = "running" /\ k \in ctlStopping
  /\ notifiers' = [notifiers EXCEPT ![k].browser = "closed"]
  /\ ctlStopping' = ctlStopping \ {k}
  /\ ctlNotifier' = 0
  /\ ctlIsRunning' = FALSE
  /\ lastReply' = "stopped"
  /\ UNCHANGED <<mainVars, extractVars, equalVars, mailVars, clockVars, authVars, env, ctlTimers>>

NextControl ==
  \/ CtlMain
  \/ CtlPostStart
  \/ \E k \in 1..MaxNotifiers : CtlLaunched(k)
  \/ \E k \in 1..MaxNotifiers : CtlAuthenticated(k)
  \/ CtlTimerFired
  \/ CtlPostStop
  \/ \E k \in 1..MaxNotifiers : CtlStopClosed(k)

SpecControl == InitControl /\ [][NextControl]_vars

(* ------------------ verifyEmailConnection and the mail ------------------ *)

\* what verifying a configuration does: verify() resolves, verify()
\* rejects, or createTransport raises
VerifyOutcomes == {"ok", "rejects", "throws"}

\* main() has constructed the notifier and initialize() has called
\* startMonitoring(); verifyEmailConnection, scheduled by setImmediate
\* during initialize(), has not made its first attempt; the mail server
\* answers each configuration in any of the ways
InitMail ==
  /\ entry = "main"
  /\ proc = "running"
  /\ globalNotifier = TRUE
  /\ srvNotifier = FALSE
  /\ srvIsRunning = FALSE
  /\ timer = "none"
  /\ initPc = "done"
  /\ processedMessages = <<>>
  /\ historySaved = "no"
  /\ persisted = <<>>
  /\ browser = "open"
  /\ doc = DocABC
  /\ isRunning = TRUE
  /\ savedTop3 = <<>>
  /\ pc = [l \in Loops |-> IF l = "init" THEN "baseline" ELSE "idle"]
  /\ currentTop3 = [l \in Loops |-> <<>>]
  /\ stopPc = [c \in Callers |-> "none"]
  /\ ticks = 0
  /\ lastExtracted = <<>>
  /\ changes = 0
  /\ notified = 0
  /\ mailCalls = 0
  /\ sendFailed = FALSE
  /\ stopCalled = FALSE
  /\ sigMonitoring = FALSE
  /\ ExtractIdle
  /\ EqualIdle
  /\ AuthIdle
  /\ env = RequiredEnv
  /\ ControlIdle
  /\ verifyIn \in [ConfigIds -> VerifyOutcomes]
  /\ verifyI = 0
  /\ emailTransporter = 0
  /\ currentConfigIndex = 0
  /\ verifyOut = <<>>
  /\ verifyAttempts = 0
  /\ missedLog = 0
  /\ ClockIdle

\* every pass of the loop goes on to the next configuration, also after a
\* verify that succeeded: the last configuration that verifies is kept
VerifyAttempt_NoReturn ==
  /\ verifyOut = <<>> /\ verifyI < NumConfigs
  /\ verifyAttempts' = verifyAttempts + 1
  /\ verifyI' = verifyI + 1
  /\ IF verifyIn[verifyI] = "ok"
     THEN /\ emailTransporter' = verifyI
          /\ currentConfigIndex' = verifyI
     ELSE UNCHANGED <<emailTransporter, currentConfigIndex>>
  /\ verifyOut' = IF verifyI + 1 < NumConfigs THEN <<>>
                  ELSE <<\E i \in ConfigIds : verifyIn[i] = "ok">>
  /\ UNCHANGED <<mainVars, extractVars, equalVars, authVars, ctlVars,
                 verifyIn, missedLog, clockVars>>

\* one pass of the loop of verifyEmailConnection: the configuration i is
\* verified; on success the transporter and the index are replaced and
\* true is returned, else the catch logs and the loop goes on; after the
\* last configuration false is returned
VerifyAttempt ==
  /\ verifyOut = <<>> /\ verifyI < NumConfigs
  /\ verifyAttempts' = verifyAttempts + 1
  /\ IF verifyIn[verifyI] = "ok"
     THEN /\ emailTransporter' = verifyI
          /\ currentConfigIndex' = verifyI
          /\ verifyOut' = <<TRUE>>
          /\ verifyI' = verifyI
     ELSE /\ verifyI' = verifyI + 1
          /\ verifyOut' = IF verifyI + 1 < NumConfigs THEN <<>> ELSE <<FALSE>>
          /\ UNCHANGED <<emailTransporter, currentConfigIndex>>
  /\ UNCHANGED <<mainVars, extractVars, equalVars, authVars, ctlVars,
                 verifyIn, missedLog, clockVars>>

NextMail ==
  \/ VerifyAttempt
  \/ BaselineDone("init")
  \/ TickWake("init")
  \/ TickExtracted("init")
  \/ TickSent("init")
  \/ PageChange

SpecMail == InitMail /\ [][NextMail]_vars

(* ------------------- the clock of the placeholders --------------------- *)

\* a document whose only conversation entry has no label to extract
DocBare == <<ItemBare>>

\* initialize() has called startMonitoring(): the loop of initialize() is
\* in the wait at the head of its first extraction; under server.js the
\* /api/start handler has armed its timer.  A wait of the program (1000,
\* 5000 ms) is over no sooner than one ms after it began.
InitClock ==
  /\ entry \in {"main", "server"}
  /\ proc = "running"
  /\ globalNotifier = (entry = "main")
  /\ srvNotifier = (entry = "server")
  /\ srvIsRunning = (entry = "server")
  /\ timer = IF entry = "server" THEN "armed" ELSE "none"
  /\ initPc = "done"
  /\ processedMessages = <<>>
  /\ historySaved = "no"
  /\ persisted = <<>>
  /\ browser = "open"
  /\ doc = DocBare
  /\ isRunning = TRUE
  /\ savedTop3 = <<>>
  /\ pc = [l \in Loops |-> IF l = "init" THEN "baseline" ELSE "idle"]
  /\ currentTop3 = [l \in Loops |-> <<>>]
  /\ stopPc = [c \in Callers |-> "none"]
  /\ ticks = 0
  /\ lastExtracted = <<>>
  /\ changes = 0
  /\ notified = 0
  /\ mailCalls = 0
  /\ sendFailed = FALSE
  /\ stopCalled = FALSE
  /\ sigMonitoring = FALSE
  /\ ExtractIdle
  /\ EqualIdle
  /\ AuthIdle
  /\ env = RequiredEnv
  /\ ControlIdle
  /\ MailIdle
  /\ clock = 0
  /\ wakeAt = [l \in Loops |-> IF l = "init" THEN 1 ELSE 0]
  /\ issued = {}

\* the placeholders a snapshot holds
PlaceholdersIn(snap) ==
  {snap[i] : i \in 1..Len(snap)} \cap {Placeholder(t) : t \in 0..MaxClock}

\* a millisecond passes
ClockAdvance ==
  /\ clock < MaxClock
  /\ clock' = clock + 1
  /\ UNCHANGED <<mainVars, extractVars, equalVars, authVars, ctlVars, mailVars,
                 wakeAt, issued>>

\* the timer of /api/start fires: the second startMonitoring() enters the
\* wait at the head of its first extraction
ClockTimerFired ==
  /\ timer = "armed"
  /\ timer' = "fired"
  /\ StartMonitoring("timer")
  /\ wakeAt' = [wakeAt EXCEPT !["timer"] = clock + 1]
  /\ UNCHANGED <<entry, proc, globalNotifier, srvNotifier, srvIsRunning, initPc,
                 processedMessages, historySaved, persisted, browser, doc,
                 savedTop3, currentTop3, stopPc, ticks, histVars, stopCalled,
                 sigMonitoring, extractVars, equalVars, authVars, ctlVars,
                 mailVars, clock, issued>>

\* the waits of loop l are over and its extraction is evaluated in the
\* page at the current clock: the baseline is stored, or the tick compares,
\* notifies a change and replaces the baseline; the loop then waits again
ClockExtract(l) ==
  /\ pc[l] \in {"baseline", "sleep"}
  /\ clock >= wakeAt[l]
  /\ LET snap == getSimpleTop3Names(doc, [i \in 1..TopN |-> clock], 0)
         change == pc[l] = "sleep" /\ ~arraysEqual(snap, savedTop3)
     IN  /\ Extracted(snap)
         /\ currentTop3' = [currentTop3 EXCEPT ![l] = snap]
         /\ savedTop3' = IF pc[l] = "baseline" \/ change THEN snap ELSE savedTop3
         /\ notified' = IF change THEN notified + 1 ELSE notified
         /\ mailCalls' = IF change THEN mailCalls + 1 ELSE mailCalls
         /\ \E ok \in BOOLEAN : sendFailed' = IF change THEN ~ok ELSE sendFailed
         /\ issued' = issued \cup PlaceholdersIn(snap)
  /\ pc' = [pc EXCEPT ![l] = "sleep"]
  /\ ticks' = IF pc[l] = "sleep" THEN ticks + 1 ELSE ticks
  /\ wakeAt' = [wakeAt EXCEPT ![l] = clock + 1]
  /\ UNCHANGED <<entry, proc, procVars, initPc, processedMessages,
                 historySaved, persisted, browser, doc, isRunning, stopPc,
                 stopCalled, sigMonitoring, extractVars, equalVars, authVars,
                 ctlVars, mailVars, clock>>

NextClock ==
  \/ ClockAdvance
  \/ ClockTimerFired
  \/ \E l \in Loops : ClockExtract(l)

SpecClock == InitClock /\ [][NextClock]_vars

(* ---------------------- arraysEqual on any arrays ----------------------- *)

\* the strings of the comparison check: they differ in case, in white
\* space and in length
EqStrings == {<<>>, <<"a">>, <<"A">>, <<"a", " ">>}

\* all arrays of at most MaxEqLen such strings
EqArrays == UNION {[1..n -> EqStrings] : n \in 0..MaxEqLen}

\* the comparison alone: arraysEqual is called once on any two arrays
InitEqual ==
  /\ entry = "main"
  /\ proc = "running"
  /\ globalNotifier = FALSE
  /\ srvNotifier = FALSE
  /\ srvIsRunning = FALSE
  /\ timer = "none"
  /\ initPc = "none"
  /\ processedMessages = <<>>
  /\ historySaved = "no"
  /\ persisted = <<>>
  /\ browser = "null"
  /\ doc = DocABC
  /\ isRunning = FALSE
  /\ savedTop3 = <<>>
  /\ pc = [l \in Loops |-> "idle"]
  /\ currentTop3 = [l \in Loops |-> <<>>]
  /\ stopPc = [c \in Callers |-> "none"]
  /\ ticks = 0
  /\ lastExtracted = <<>>
  /\ changes = 0
  /\ notified = 0
  /\ mailCalls = 0
  /\ sendFailed = FALSE
  /\ stopCalled = FALSE
  /\ sigMonitoring = FALSE
  /\ ExtractIdle
  /\ eqA \in EqArrays
  /\ eqB \in EqArrays
  /\ eqOut = <<>>
  /\ AuthIdle
  /\ env = RequiredEnv
  /\ ControlIdle
  /\ MailIdle
  /\ ClockIdle

EqualApply ==
  /\ eqOut = <<>>
  /\ eqOut' = <<arraysEqual(eqA, eqB)>>
  /\ UNCHANGED <<mainVars, extractVars, eqA, eqB, mailVars, clockVars, authVars,
                 ctlVars>>

NextEqual == EqualApply

SpecEqual == InitEqual /\ [][NextEqual]_vars

(* -------------------------------- claims ------------------------------- *)

\* the loops whose tick is past its sleep: extracting, comparing or notifying
Ticking == {l \in Loops : pc[l] \in {"extract", "send"}}

\* the loops whose sendMail call is in flight
Sending == {l \in Loops : pc[l] = "send"}

\* C1: polls on a notifier are strictly sequential for every way monitoring
\* is started: at most one tick is extracting, comparing or notifying at
\* any moment, and at most one sendMail call is in flight.
C1_PollsSequential ==
  /\ Cardinality(Ticking) <= 1
  /\ Cardinality(Sending) <= 1

\* C2: a tick notifies exactly when its snapshot differs from the baseline
\* and then leaves the baseline equal to that snapshot, so that over the
\* sequence of extracted snapshots the number of notifications is the
\* number of snapshots that differ from the one before.
C2_NotificationsCountChanges ==
  /\ notified = changes
  /\ \A l \in Loops :
       (pc[l] = "sleep" /\ currentTop3[l] # <<>> /\ Ticking = {})
         => savedTop3 = lastExtracted

\* C3: a tick whose extracted snapshot equals the baseline leaves savedTop3
\* unchanged and makes no call of the mail transporter.
C3_EqualTickNoEffect ==
  [][\A l \in Loops :
       (pc[l] = "extract" /\ pc'[l] # "extract" /\ currentTop3'[l] = savedTop3)
         => /\ savedTop3' = savedTop3
            /\ mailCalls' = mailCalls
            /\ pc'[l] # "send"]_vars

\* an equal tick has ended: one tick ran, its snapshot is the baseline and
\* no mail was ever sent
C3_Witness ==
  /\ ticks = 1
  /\ pc["init"] = "sleep"
  /\ currentTop3["init"] = savedTop3
  /\ mailCalls = 0

\* C4: starting the poll loop stores one snapshot as the baseline before
\* any tick of that loop compares, and sends no notification for that
\* snapshot, whatever its content.
C4_BaselineFirst ==
  [][/\ \A l \in Loops :
          (pc[l] = "baseline" /\ pc'[l] # "baseline")
            => /\ savedTop3' = lastExtracted'
               /\ Len(savedTop3') = TopN
               /\ mailCalls' = mailCalls
               /\ notified' = notified
               /\ pc'[l] \in {"sleep", "exited"}
     /\ \A l \in Loops :
          pc'[l] \in {"sleep", "extract", "send"} => savedTop3' # <<>>]_vars

\* a loop has stored a sentinel snapshot as its baseline and waits for its
\* first tick, nothing sent
C4_Witness ==
  /\ pc["init"] = "sleep"
  /\ ticks = 0
  /\ savedTop3 = NoChatsFound
  /\ mailCalls = 0

\* C5: getSimpleTop3Names returns a sequence of exactly 3 strings on every
\* path: 0, 1, 2, 3 or more list items, no selector matching, a page
\* operation raising.
C5_ExactlyThree ==
  top3Out # <<>> =>
    /\ Len(top3Out) = TopN
    /\ \A i \in 1..Len(top3Out) :
         \A j \in 1..Len(top3Out[i]) : top3Out[i][j] \in STRING

\* a document of two list items gave two labels and one padding string
C5_Witness ==
  /\ Len(doc) = 2
  /\ Len(top3Out) = TopN
  /\ top3Out[2] # <<>>
  /\ top3Out[3] = <<>>

\* C6: once stop() has been called on a notifier it performs no further
\* tick: no extraction, no comparison, no change of the baseline and no
\* notification email after the stop.
C6_NoTickAfterStop ==
  [][stopCalled =>
       \A l \in Loops :
         pc[l] \in {"sleep", "extract", "send"}
           => /\ pc'[l] \in {pc[l], "exited"}
              /\ savedTop3' = savedTop3
              /\ mailCalls' = mailCalls]_vars

\* C7: stop() never preempts a tick: the browser is not closed while a tick
\* is sleeping, extracting, comparing or notifying.
C7_StopWaitsForTick ==
  browser = "closed" =>
    \A l \in Loops : pc[l] \notin {"sleep", "extract", "send"}

\* C8: when a signal arrives while a notifier is monitoring, stop() has
\* completed by the time the process exits, under main() and under
\* server.js.
C8_StopBeforeExit ==
  (proc = "exited" /\ sigMonitoring) => \E c \in Callers : stopPc[c] = "done"

\* C9: when sendMail raises for a detected change the baseline is still
\* replaced by the new snapshot in that tick and the loop goes on to its
\* next tick (it ends only when isRunning was cleared).
C9_SendFailureContained ==
  [][\A l \in Loops :
       (pc[l] = "send" /\ pc'[l] # "send" /\ sendFailed')
         => /\ savedTop3' = currentTop3[l]
            /\ pc'[l] = IF isRunning THEN "sleep" ELSE "exited"]_vars

\* under main(): the send of the first tick raised, the baseline is that
\* tick's snapshot and the loop is in the extraction of its second tick
C9_Witness ==
  /\ entry = "main"
  /\ sendFailed
  /\ mailCalls = 1
  /\ ticks = 2
  /\ pc["init"] = "extract"
  /\ savedTop3 = currentTop3["init"]

\* C10: each NotificationEvent results in exactly one sendMail call: a
\* failed send is retried neither in its tick nor later, and a later event
\* gets its own call.
C10_OneAttemptPerEvent == mailCalls = notified

\* under main(): the send of the first event raised and the send of the
\* second event is in flight, two calls for two events
C10_Witness ==
  /\ entry = "main"
  /\ sendFailed
  /\ notified = 2
  /\ mailCalls = 2
  /\ pc["init"] = "send"

\* C13: arraysEqual(a, b) returns true exactly when a and b have the same
\* length and the same string at every position (case, white space and
\* order count); so it is reflexive and symmetric, and false for two
\* arrays that differ at a single position.
C13_EqualIsPairwise ==
  eqOut # <<>> =>
    eqOut[1] = (/\ Len(eqA) = Len(eqB)
                /\ \A i \in 1..Len(eqA) : eqA[i] = eqB[i])

\* two arrays of three strings that differ at the last position only, and
\* there only in case, compared unequal
C13_Witness ==
  /\ eqOut = <<FALSE>>
  /\ Len(eqA) = TopN /\ Len(eqB) = TopN
  /\ \A i \in 1..(TopN - 1) : eqA[i] = eqB[i]
  /\ eqA[TopN] = <<"a">> /\ eqB[TopN] = <<"A">>

\* the list items of the document the query of chatSelectors[i] matches
Matches(i) == PageQueryAll(doc, chatSelectors[i])

\* C14: the selector chain is tried in its listed order and the result set
\* of the first query with at least one match is used, after exactly that
\* many queries, even if a later query would match more items; the result
\* is 'No chats found' only when every query matches nothing.
C14_FirstMatchWins ==
  (top3Out # <<>> /\ ~foundOut.threw) =>
    /\ \A i \in 1..Len(chatSelectors) :
         (/\ Len(Matches(i)) > 0
          /\ \A j \in 1..(i - 1) : Len(Matches(j)) = 0)
           => /\ foundOut.chats = Matches(i)
              /\ foundOut.ops = i
    /\ (\A i \in 1..Len(chatSelectors) : Len(Matches(i)) = 0)
         <=> top3Out = NoChatsFound

\* the first query matched and was used although the second query matches
\* more items
C14_Witness ==
  /\ top3Out # <<>>
  /\ ~foundOut.threw
  /\ foundOut.ops = 1
  /\ foundOut.chats = Matches(1)
  /\ Len(Matches(1)) < Len(Matches(2))

\* C15: when the page rejects a query of the selector chain (the query
\* call raises), the query counts as a non-match and the chain goes on: a
\* later query that matches determines the result.
C15_RejectedQuerySkipped ==
  (/\ top3Out # <<>>
   /\ failAtIn \in 1..Len(chatSelectors)
   /\ \A j \in 1..(failAtIn - 1) : Len(Matches(j)) = 0
   /\ \E j \in (failAtIn + 1)..Len(chatSelectors) :
        /\ Len(Matches(j)) > 0
        /\ \A k \in (failAtIn + 1)..(j - 1) : Len(Matches(k)) = 0)
    => /\ top3Out # ErrorTop3
       /\ foundOut.chats # <<>>

\* the extraction of the loop's last tick raised and the tick is past it
RaisedTick ==
  /\ pc["init"] \in {"send", "sleep", "exited"}
  /\ currentTop3["init"] = ErrorTop3

\* C11: an extraction that raises inside a tick does not end the poll
\* loop: after such a tick the loop starts its next tick, unless isRunning
\* was cleared or the process ended (ticks are counted up to MaxTicks).
C11_LoopSurvivesFailure ==
  \A n \in 1..(MaxTicks - 1) :
    (ticks = n /\ RaisedTick) ~> (ticks > n \/ ~isRunning \/ proc = "exited")

\* the extraction of the first tick raised and the loop is in the
\* extraction of its second tick, still running
C11_Witness ==
  /\ ticks = 2
  /\ pc["init"] = "extract"
  /\ currentTop3["init"] = ErrorTop3
  /\ isRunning
  /\ browser = "open"

\* C12: a failure inside a tick (the scraping raised, or no selector of the
\* chain matched) shows only in the log: no sendMail call is made for a
\* snapshot that is the Error or the No chats found sentinel.
C12_NoSentinelMailed ==
  \A l \in Loops :
    pc[l] = "send" => currentTop3[l] \notin {ErrorTop3, NoChatsFound}

\* C17: every shutdown through stop() writes the persisted document to
\* processed-messages.json (the write itself may raise), whether or not a
\* history file was loaded at construction; and stop() goes on to close
\* the browser whatever the write did.
C17_HistoryWrittenOnStop ==
  /\ stopCalled => historySaved \in {"written", "raised"}
  /\ \A c \in Callers : stopPc[c] = "done" => browser # "open"

\* C20: while the loop is running the baseline is replaced only by a tick
\* that detected a change, when its sendMail call is over, and by the
\* snapshot that tick notified; no other step (no further startMonitoring
\* call) overwrites a baseline.
C20_BaselineOnlyByNotifyingTick ==
  [][(isRunning /\ savedTop3 # <<>> /\ savedTop3' # savedTop3)
       => \E l \in Loops :
            /\ pc[l] = "send" /\ pc'[l] # "send"
            /\ savedTop3' = currentTop3[l]]_vars

\* C18: an authentication failure or timeout in waitForAuthentication (the
\* 36 passes of the QR wait used up, neither QR code nor chat interface
\* detected, a wait or query on the page raising) is logged and
\* initialize() goes on to startMonitoring() instead of aborting.
C18_AuthFailureProceeds ==
  (/\ authOutcome \in {"timeout", "neither", "raised"}
   /\ authPc \in {"returned", "thrown"})
    => /\ initPc = "done"
       /\ isRunning
       /\ pc["init"] = "baseline"

\* C16: when EMAIL_USER, EMAIL_PASS or EMAIL_TO is missing the start is
\* aborted before any notifier is constructed, any browser launched or any
\* monitoring started, under main() and under POST /api/start.
C16_MissingConfigAborts ==
  env # RequiredEnv => \A k \in 1..MaxNotifiers : notifiers[k] = NoNotifier

\* the notifiers that were constructed and neither failed to initialize
\* nor had their browser closed by stop()
Live ==
  {k \in 1..MaxNotifiers :
     /\ notifiers[k].st \in {"launching", "authenticating", "done"}
     /\ notifiers[k].browser # "closed"}

\* C19: at most one notifier is live at any time: a POST /api/start that
\* arrives while an earlier start is initializing or while monitoring is
\* active constructs no second notifier, and the live notifier is the one
\* POST /api/stop can stop.
C19_OneLiveNotifier ==
  /\ Cardinality(Live) <= 1
  /\ \A k \in Live : entry = "server" => ctlNotifier = k

\* the conversation entries of the document: the list items the first
\* matching query of the chain matches, none when no query matches
Entries ==
  IF \E i \in 1..Len(chatSelectors) : Len(Matches(i)) > 0
  THEN Matches(CHOOSE i \in 1..Len(chatSelectors) :
                 /\ Len(Matches(i)) > 0
                 /\ \A j \in 1..(i - 1) : Len(Matches(j)) = 0)
  ELSE <<>>

\* the labels the page can return for an entry: its title, else its text,
\* else the placeholder of any clock value
LabelsOf(el) == {ExtractName(el, now) : now \in 0..MaxNow}

\* C21: with k >= 1 conversation entries the positions 1..min(k,3) of the
\* snapshot hold the labels of the first min(k,3) entries in document
\* order and the other positions are empty strings; with k = 0 positions 2
\* and 3 are empty and position 1 is empty or the sentinel.  Entries after
\* the third have no influence.
C21_PositionsInOrder ==
  (top3Out # <<>> /\ failAtIn = 0) =>
    /\ Len(top3Out) = TopN
    /\ IF Len(Entries) = 0
       THEN /\ top3Out[1] \in {<<>>, NoChatsFound[1]}
            /\ top3Out[2] = <<>>
            /\ top3Out[3] = <<>>
       ELSE \A i \in 1..TopN :
              IF i <= Len(Entries)
              THEN top3Out[i] \in LabelsOf(Entries[i])
              ELSE top3Out[i] = <<>>

\* four entries, the item with the long title and the link text, the
\* titled item twice and the first again: the snapshot holds a
\* placeholder and Alice twice, and the fourth entry does not show
C21_Witness ==
  /\ top3Out # <<>>
  /\ failAtIn = 0
  /\ Len(Entries) = TopN + 1
  /\ Entries[1] = ItemLong /\ Entries[2] = ItemTitled
  /\ Entries[3] = ItemTitled /\ Entries[TopN + 1] = ItemLong
  /\ top3Out[1] \in {Placeholder(now) : now \in 0..MaxNow}
  /\ top3Out[2] = Alice
  /\ top3Out[3] = Alice

\* the placeholders of all clock values
Placeholders == {Placeholder(now) : now \in 0..MaxNow}

\* C22: every label taken from a title attribute or a text node is the
\* trimmed value and its trimmed length is strictly between 1 and 50; a
\* candidate whose trimmed length is 1 or less, or 50 or more, is skipped.
C22_LabelLengthTrimmed ==
  (top3Out # <<>> /\ failAtIn = 0 /\ Len(Entries) > 0) =>
    \A i \in 1..TopN :
      (i <= Len(Entries) /\ top3Out[i] \notin Placeholders)
        => /\ top3Out[i] = Trim(top3Out[i])
           /\ Len(top3Out[i]) > MinLabelLen
           /\ Len(top3Out[i]) < MaxLabelLen

Verifying == {i \in ConfigIds : verifyIn[i] = "ok"}

\* C24: verifyEmailConnection tries the configurations in order and stops
\* at the first that verifies: it returns true with emailTransporter and
\* currentConfigIndex set to the lowest index that verifies; when none
\* verifies it returns false and leaves both at configuration 0.  It makes
\* at most three attempts.
C24_FirstVerifyingConfig ==
  /\ verifyAttempts <= NumConfigs
  /\ verifyOut # <<>> =>
       IF Verifying # {}
       THEN LET first == CHOOSE i \in Verifying : \A j \in Verifying : i <= j
            IN  /\ verifyOut = <<TRUE>>
                /\ emailTransporter = first
                /\ currentConfigIndex = first
                /\ verifyAttempts = first + 1
       ELSE /\ verifyOut = <<FALSE>>
            /\ emailTransporter = 0
            /\ currentConfigIndex = 0
            /\ verifyAttempts = NumConfigs

\* configuration 0 did not verify, configurations 1 and 2 do: true was
\* returned after two attempts with configuration 1 in use
C24_Witness ==
  /\ verifyOut = <<TRUE>>
  /\ verifyIn[0] # "ok" /\ verifyIn[1] = "ok" /\ verifyIn[2] = "ok"
  /\ currentConfigIndex = 1
  /\ emailTransporter = 1
  /\ verifyAttempts = 2

\* C25: when verification failed for every configuration monitoring goes
\* on and the notification of each change detected afterwards is saved to
\* missed-messages.log.
C25_MissedNotificationsLogged ==
  [][(verifyOut = <<FALSE>> /\ notified' = notified + 1)
       => missedLog' = missedLog + 1]_vars

\* C23: the placeholder of an entry without label is unique per
\* extraction: an extraction produces no placeholder that a snapshot of an
\* earlier extraction holds, whatever the interleaving of the extractions.
C23_PlaceholderUnique ==
  [][\A l \in Loops :
       (pc[l] # "idle" /\ wakeAt'[l] # wakeAt[l])
         => PlaceholdersIn(currentTop3'[l]) \cap issued = {}]_vars

====
